---- MODULE Spec2Model ----
(***************************************************************************)
(* Model of map-download (src/src/main.rs): a tile-pyramid downloader.     *)
(* One coordinating task runs search_depth; it spawns one download_row     *)
(* task per discovered row.  Every task fetches tiles with download_file,  *)
(* which retries over increasing tile_group values behind a semaphore.     *)
(***************************************************************************)
EXTENDS Integers, FiniteSets, Sequences, TLC

(* ------------------------------ bounds --------------------------------- *)
\* zoom levels 0..MaxZoom may be served for tile (0,0)
MaxZoom == 1
\* a served row has at most MaxX tiles
MaxX == 2
\* rows 0..MaxY-1 may be served
MaxY == 2
\* --max-tile-gropu ranges over -1..MaxGroup
MaxGroup == 1
\* --concurrent-requests ranges over 0..MaxLimit
MaxLimit == 2
\* the inputs of one run (see Size) sum to at most MaxSize
MaxSize == 7
\* at most MaxFaults requests or writes of a run fail (transport, body, disk)
MaxFaults == 1

VARIABLES
  concurrent_requests, \* Args.concurrent_requests
  max_tile_gropu,      \* Args.max_tile_gropu
  server,              \* the tile server the run talks to (environment)
  permits,             \* State.semaphor: free permits
  width,               \* State.width
  height,              \* State.height
  count,               \* State.count
  pc,                  \* position of every task
  phase,               \* which loop of search_depth the coordinator is in
  x, y, zoom,          \* per task: locals of the running loop
  tile_group,          \* per task: the caller's tile_group (the threaded hint)
  tg,                  \* per task: download_file's own (mutable) tile_group
  j,                   \* search_depth: index of the next JoinHandle awaited
  files,               \* tile files on disk, as <<zoom, x, y>>
  montage,             \* arguments handed to the montage process, <<>> before
  calls,               \* history: finished download_file calls
  reqs,                \* history: requests sent, as <<x, y, zoom, tile_group>>
  faults,              \* history: number of failures the environment injected
  held                 \* per task: the mutex guards it holds across a step

vars == <<concurrent_requests, max_tile_gropu, server, permits, width, height,
          count, pc, phase, x, y, zoom, tile_group, tg, j, files, montage,
          calls, reqs, faults, held>>

(* ------------------------------ tasks ---------------------------------- *)
\* the task running main/search_depth
Prober == -1
\* the task spawned for row r runs download_row(.., 1, r, ..)
Walkers == DOMAIN server.rowLen
Tasks == {Prober} \cup Walkers

(* ------------------------------ server --------------------------------- *)
\* The server is the environment.  It serves tile (0,0,z) for z in zooms,
\* and at every zoom z >= 0 the tiles (x,y) # (0,0) with x < rowLen[y]; scheme
\* fixes under which
\* TileGroup a served tile answers with a success status: always TileGroup0,
\* or the TileGroup numbered like the tile's row; the server of Scenario B
\* numbers them in raster order (scheme "raster").
Schemes == {"zero", "row"}

RECURSIVE Tiles(_, _)
\* number of tiles in rows 0..n-1 of a grid
Tiles(rowLen, n) == IF n = 0 THEN 0 ELSE rowLen[n - 1] + Tiles(rowLen, n - 1)

\* Row 0 holds tile (0,0); a row below an empty row is never asked for.
Grids ==
  {g \in [0..(MaxY - 1) -> 0..MaxX] :
     /\ g[0] >= 1
     /\ \A r \in 1..(MaxY - 1) : g[r] > 0 => g[r - 1] > 0}

Servers ==
  [zooms : SUBSET (0..MaxZoom), rowLen : Grids, scheme : Schemes]

\* size of a run's input: zoom levels, tiles, grouping bound and permits
Size(srv, maxgroup, limit) ==
  Cardinality(srv.zooms) + Tiles(srv.rowLen, MaxY) + (maxgroup + 1) + limit

Served(sx, sy, sz) ==
  IF sx = 0 /\ sy = 0
    THEN sz \in server.zooms
    ELSE /\ sz >= 0
         /\ sy \in DOMAIN server.rowLen
         /\ sx >= 0 /\ sx < server.rowLen[sy]

\* Scenario B's numbering: server.first[z] is the number of tile (0,0,z), the
\* count of tiles in the levels below z; within a level tiles are numbered in
\* raster order, and the TileGroup of a tile goes up by one every 4 tiles
RasterGroup(sx, sy, sz) ==
  (server.first[sz] + sy * server.rowLen[0] + sx) \div 4

GroupOk(sx, sy, sz, g) ==
  CASE server.scheme = "zero"   -> g = 0
    [] server.scheme = "row"    -> g = sy
    [] server.scheme = "raster" -> g = RasterGroup(sx, sy, sz)

\* r.status().is_success() for GET {url}/TileGroup{g}/{zoom}-{x}-{y}.jpg
StatusIsSuccess(sx, sy, sz, g) == Served(sx, sy, sz) /\ GroupOk(sx, sy, sz, g)

(* ------------------------------ mutexes -------------------------------- *)
\* State.width, State.height and State.count are tokio Mutexes.  A guard bound
\* with let lives to the end of its block (held records it); a guard that is a
\* temporary of one statement is taken and dropped within that step.
MutexFree(m) == \A t \in Tasks : m \notin held[t]

\* (mutant) the guard is not dropped
Dropped_Leak(h, m) == h

\* a guard goes out of scope
Dropped(h, m) == h \ {m}

(* ------------------------- download_file ------------------------------- *)
\* the download_file call task t is inside: download_file(s, x, y, zoom, hint)
Call(t, res) ==
  [task |-> t, x |-> x[t], y |-> y[t], zoom |-> zoom[t],
   hint |-> tile_group[t], res |-> res, g |-> tg[t]]

\* (mutant) the gate admits every request
CanAcquire_NoGate == TRUE

\* (mutant) the gate keeps one permit back
CanAcquire_OffByOne == permits > 1

\* s.semaphor.acquire().await returns only when a permit is free
CanAcquire == permits > 0

\* (mutant) the bound is tested with >= instead of >
LimitReached_OffByOne(g) == g >= max_tile_gropu

\* (mutant) the bound is tested one index too late
LimitReached_Late(g) == g > max_tile_gropu + 1

\* the bail!() test after tile_group += 1
LimitReached(g) == g > max_tile_gropu

\* (mutant) the last good column is stored instead of the failing one
WidthUpdate_LastGood(m, col) == IF col - 1 > m THEN col - 1 ELSE m

\* the comparison and assignment under the width lock in download_row
WidthUpdate(m, col) == IF col - 1 > m THEN col ELSE m

\* (mutant) zoom is left at the level whose fetch failed
LastGoodZoom_NoStepBack(z) == z

\* zoom -= 1 after the depth probe's loop
LastGoodZoom(z) == z - 1

\* (mutant) the last good row is stored instead of the failing one
ProbedHeight_LastGood(row) == row - 1

\* the value stored into height after the column probe's loop
ProbedHeight(row) == row

\* (mutant) the row is walked from column 0
SpawnRowAndProbe_FromColumn0(row, zm, grp, nexty) ==
  /\ pc' = [pc EXCEPT ![Prober] = "acquire", ![row] = "acquire"]
  /\ x' = [x EXCEPT ![row] = 0]
  /\ y' = [y EXCEPT ![Prober] = nexty, ![row] = row]
  /\ zoom' = [zoom EXCEPT ![Prober] = zm, ![row] = zm]
  /\ tile_group' = [tile_group EXCEPT ![Prober] = grp, ![row] = grp]
  /\ tg' = [tg EXCEPT ![Prober] = grp, ![row] = grp]

\* tokio::spawn(download_row(&sc, 1, row, zoom, tile_group)), together with the
\* coordinator's next download_file(s, 0, nexty, zm, grp) call
SpawnRowAndProbe(row, zm, grp, nexty) ==
  /\ pc' = [pc EXCEPT ![Prober] = "acquire", ![row] = "acquire"]
  /\ x' = [x EXCEPT ![row] = 1]
  /\ y' = [y EXCEPT ![Prober] = nexty, ![row] = row]
  /\ zoom' = [zoom EXCEPT ![Prober] = zm, ![row] = zm]
  /\ tile_group' = [tile_group EXCEPT ![Prober] = grp, ![row] = grp]
  /\ tg' = [tg EXCEPT ![Prober] = grp, ![row] = grp]

\* (mutant) the hint handed on is one past the index that succeeded
NextHint_Overshoot(g) == g + 1

\* (mutant) the hint is dropped and the search restarts from TileGroup0
NextHint_FromScratch(g) == 0

\* tile_group = tg: the index that succeeded is the next call's hint
NextHint(g) == g

\* download_file returned Ok(g) to the loop that called it
RetOk(t, g) ==
  IF t = Prober /\ phase = "depth" THEN
       \* tile_group = tg; zoom += 1; next download_file(s, 0, 0, zoom, tile_group)
       /\ tile_group' = [tile_group EXCEPT ![t] = NextHint(g)]
       /\ zoom' = [zoom EXCEPT ![t] = zoom[t] + 1]
       /\ tg' = [tg EXCEPT ![t] = NextHint(g)]
       /\ pc' = [pc EXCEPT ![t] = "acquire"]
       /\ UNCHANGED <<x, y, phase, height, j>>
  ELSE IF t = Prober THEN
       \* tile_group = tg; spawn the row; y += 1; next download_file
       /\ SpawnRowAndProbe(y[t], zoom[t], NextHint(g), y[t] + 1)
       /\ UNCHANGED <<phase, height, j>>
  ELSE
       \* download_row: x += 1; tile_group = tg; next download_file
       /\ x' = [x EXCEPT ![t] = x[t] + 1]
       /\ tile_group' = [tile_group EXCEPT ![t] = NextHint(g)]
       /\ tg' = [tg EXCEPT ![t] = NextHint(g)]
       /\ pc' = [pc EXCEPT ![t] = "acquire"]
       /\ UNCHANGED <<y, zoom, phase, height, j>>

\* download_file returned Err(_) to the loop that called it: the while-let ends
RetErr(t) ==
  IF t = Prober /\ phase = "depth" THEN
       \* *count = 1; zoom -= 1; spawn row 0; y = 1; first column-probe call
       /\ MutexFree("count")
       /\ count' = 1
       /\ SpawnRowAndProbe(0, LastGoodZoom(zoom[t]), tile_group[t], 1)
       /\ phase' = "column"
       /\ UNCHANGED <<height, j>>
  ELSE IF t = Prober THEN
       \* *s.height.lock().await = y; then the join loop
       /\ MutexFree("height")
       /\ height' = ProbedHeight(y[t])
       /\ pc' = [pc EXCEPT ![t] = "join"]
       /\ UNCHANGED <<count, x, y, zoom, tile_group, tg, phase, j>>
  ELSE
       /\ pc' = [pc EXCEPT ![t] = "width"]
       /\ UNCHANGED <<count, x, y, zoom, tile_group, tg, phase, height, j>>

\* line 43-49: take a permit and send the request
Acquire(t) ==
  /\ pc[t] = "acquire"
  /\ CanAcquire
  /\ permits' = permits - 1
  /\ pc' = [pc EXCEPT ![t] = "send"]
  /\ reqs' = reqs \cup {<<x[t], y[t], zoom[t], tg[t]>>}
  /\ UNCHANGED <<concurrent_requests, max_tile_gropu, server, held, width, height,
                 count, phase, x, y, zoom, tile_group, tg, j, files, montage,
                 calls, faults>>

\* (mutant) the permit is kept until download_file returns
AfterDrop_Kept(p) == p

\* drop(semaphor): the permit goes back to the semaphore
AfterDrop(p) == p + 1

\* line 49-68: the response arrives with a status; the permit is dropped
Respond(t) ==
  /\ pc[t] = "send"
  /\ permits' = AfterDrop(permits)
  /\ IF StatusIsSuccess(x[t], y[t], zoom[t], tg[t]) THEN
          /\ pc' = [pc EXCEPT ![t] = "write"]
          /\ UNCHANGED <<count, x, y, zoom, tile_group, tg, phase, height, j,
                         calls>>
     ELSE IF LimitReached(tg[t] + 1) THEN
          /\ RetErr(t)
          /\ calls' = calls \cup {Call(t, "exhausted")}
     ELSE
          /\ tg' = [tg EXCEPT ![t] = tg[t] + 1]
          /\ pc' = [pc EXCEPT ![t] = "acquire"]
          /\ UNCHANGED <<count, x, y, zoom, tile_group, phase, height, j, calls>>
  /\ UNCHANGED <<concurrent_requests, max_tile_gropu, server, held, width, files,
                 montage, reqs, faults>>

\* (mutant) a failed send() is taken for a boundary signal
TransportFail_AsBoundary(t) ==
  /\ pc[t] = "send"
  /\ faults < MaxFaults
  /\ faults' = faults + 1
  /\ permits' = permits + 1
  /\ RetErr(t)
  /\ calls' = calls \cup {Call(t, "transport")}
  /\ UNCHANGED <<concurrent_requests, max_tile_gropu, server, held, width, files,
                 montage, reqs>>

\* line 49: send() fails and .unwrap() panics; unwinding drops the permit
TransportFail(t) ==
  /\ pc[t] = "send"
  /\ faults < MaxFaults
  /\ faults' = faults + 1
  /\ permits' = permits + 1
  /\ pc' = [pc EXCEPT ![t] = "panicked"]
  /\ calls' = calls \cup {Call(t, "transport")}
  /\ UNCHANGED <<concurrent_requests, max_tile_gropu, server, held, width, height,
                 count, phase, x, y, zoom, tile_group, tg, j, files, montage,
                 reqs>>

\* line 70-82: the body is written to {zoom}-{x}-{y}.jpg, *count += 1 under
\* the count lock, Ok(tile_group)
WriteAndCount(t) ==
  /\ pc[t] = "write"
  /\ files' = files \cup {<<zoom[t], x[t], y[t]>>}
  /\ count' = count + 1
  /\ RetOk(t, tg[t])
  /\ calls' = calls \cup {Call(t, "ok")}
  /\ UNCHANGED <<concurrent_requests, max_tile_gropu, server, held, permits, width,
                 montage, reqs, faults>>

\* line 70-72: the body is written to {zoom}-{x}-{y}.jpg
WriteFile(t) ==
  /\ pc[t] = "write"
  /\ files' = files \cup {<<zoom[t], x[t], y[t]>>}
  /\ pc' = [pc EXCEPT ![t] = "lock_count"]
  /\ UNCHANGED <<concurrent_requests, max_tile_gropu, server, held, permits,
                 width, height, count, phase, x, y, zoom, tile_group, tg, j,
                 montage, calls, reqs, faults>>

\* line 74: let mut count = s.count.lock().await
LockCount(t) ==
  /\ pc[t] = "lock_count"
  /\ MutexFree("count")
  /\ held' = [held EXCEPT ![t] = @ \cup {"count"}]
  /\ pc' = [pc EXCEPT ![t] = "counting"]
  /\ UNCHANGED <<concurrent_requests, max_tile_gropu, server, permits, width,
                 height, count, phase, x, y, zoom, tile_group, tg, j, files,
                 montage, calls, reqs, faults>>

\* line 76-83: *count += 1; Ok(tile_group); the guard is dropped on return
CountUp(t) ==
  /\ pc[t] = "counting"
  /\ count' = count + 1
  /\ held' = [held EXCEPT ![t] = Dropped(@, "count")]
  /\ RetOk(t, tg[t])
  /\ calls' = calls \cup {Call(t, "ok")}
  /\ UNCHANGED <<concurrent_requests, max_tile_gropu, server, permits, width,
                 files, montage, reqs, faults>>

\* line 70, 72: File::create or write_all fails; ? returns the error
WriteFail(t) ==
  /\ pc[t] = "write"
  /\ faults < MaxFaults
  /\ faults' = faults + 1
  /\ RetErr(t)
  /\ calls' = calls \cup {Call(t, "ioerr")}
  /\ UNCHANGED <<concurrent_requests, max_tile_gropu, server, held, permits, width,
                 files, montage, reqs>>

\* line 72: r.bytes() fails while the body is read; ? returns the error
BodyFail(t) ==
  /\ pc[t] = "write"
  /\ faults < MaxFaults
  /\ faults' = faults + 1
  /\ RetErr(t)
  /\ calls' = calls \cup {Call(t, "bodyerr")}
  /\ UNCHANGED <<concurrent_requests, max_tile_gropu, server, held, permits, width,
                 files, montage, reqs>>

(* --------------------------- download_row ------------------------------ *)
\* line 90-93: the row's end column is folded into the shared width
RecordWidth(t) ==
  /\ pc[t] = "width"
  /\ width' = WidthUpdate(width, x[t])
  /\ pc' = [pc EXCEPT ![t] = "done"]
  /\ UNCHANGED <<concurrent_requests, max_tile_gropu, server, held, permits, height,
                 count, phase, x, y, zoom, tile_group, tg, j, files, montage,
                 calls, reqs, faults>>

\* line 90: let mut m = s.width.lock().await
LockWidth(t) ==
  /\ pc[t] = "width"
  /\ MutexFree("width")
  /\ held' = [held EXCEPT ![t] = @ \cup {"width"}]
  /\ pc' = [pc EXCEPT ![t] = "width_locked"]
  /\ UNCHANGED <<concurrent_requests, max_tile_gropu, server, permits, width,
                 height, count, phase, x, y, zoom, tile_group, tg, j, files,
                 montage, calls, reqs, faults>>

\* line 91-94: the comparison and assignment; the guard is dropped on return
StoreWidth(t) ==
  /\ pc[t] = "width_locked"
  /\ width' = WidthUpdate(width, x[t])
  /\ held' = [held EXCEPT ![t] = Dropped(@, "width")]
  /\ pc' = [pc EXCEPT ![t] = "done"]
  /\ UNCHANGED <<concurrent_requests, max_tile_gropu, server, permits, height,
                 count, phase, x, y, zoom, tile_group, tg, j, files, montage,
                 calls, reqs, faults>>

(* --------------------------- search_depth ------------------------------ *)
\* (mutant) the handles are not awaited: the loop steps over running rows
Join_NoWait ==
  /\ pc[Prober] = "join"
  /\ j < y[Prober]
  /\ pc' = pc /\ j' = j + 1
  /\ UNCHANGED <<concurrent_requests, max_tile_gropu, server, held, permits, width,
                 height, count, phase, x, y, zoom, tile_group, tg, files,
                 montage, calls, reqs, faults>>

\* line 130-132: j.await.unwrap() on the next handle of tk (rows 0..y-1)
Join ==
  /\ pc[Prober] = "join"
  /\ j < y[Prober]
  /\ pc[j] \in {"done", "panicked"}
  /\ IF pc[j] = "panicked"
       THEN pc' = [pc EXCEPT ![Prober] = "panicked"] /\ j' = j
       ELSE pc' = pc /\ j' = j + 1
  /\ UNCHANGED <<concurrent_requests, max_tile_gropu, server, held, permits, width,
                 height, count, phase, x, y, zoom, tile_group, tg, files,
                 montage, calls, reqs, faults>>

\* line 134-143: all handles joined; the summary is printed, create_image called
Summary ==
  /\ pc[Prober] = "join"
  /\ j = y[Prober]
  /\ MutexFree("width") /\ MutexFree("count")
  /\ pc' = [pc EXCEPT ![Prober] = "create_image"]
  /\ UNCHANGED <<concurrent_requests, max_tile_gropu, server, held, permits, width,
                 height, count, phase, x, y, zoom, tile_group, tg, j, files,
                 montage, calls, reqs, faults>>

(* --------------------------- create_image ------------------------------ *)
\* the tile paths handed to montage, row-major
TileArgs(w, h, zm) == {<<zm, cx, cy>> : cx \in 0..(w - 1), cy \in 0..(h - 1)}

\* line 146-172: width and height are read and the montage process is run
CreateImage ==
  /\ pc[Prober] = "create_image"
  /\ MutexFree("width") /\ MutexFree("height")
  /\ montage' = <<width, height, zoom[Prober]>>
  /\ pc' = [pc EXCEPT ![Prober] = "end"]
  /\ UNCHANGED <<concurrent_requests, max_tile_gropu, server, held, permits, width,
                 height, count, phase, x, y, zoom, tile_group, tg, j, files,
                 calls, reqs, faults>>

(* --------------------------- specification ----------------------------- *)
\* main: State is built and search_depth makes its first download_file call
InitState ==
  /\ permits = concurrent_requests
  /\ width = 0
  /\ height = 0
  /\ count = 0
  /\ pc = [t \in Tasks |-> IF t = Prober THEN "acquire" ELSE "unspawned"]
  /\ phase = "depth"
  /\ x = [t \in Tasks |-> 0]
  /\ y = [t \in Tasks |-> 0]
  /\ zoom = [t \in Tasks |-> 0]
  /\ tile_group = [t \in Tasks |-> 0]
  /\ tg = [t \in Tasks |-> 0]
  /\ j = 0
  /\ files = {}
  /\ montage = <<>>
  /\ calls = {}
  /\ reqs = {}
  /\ faults = 0
  /\ held = [t \in Tasks |-> {}]

Init ==
  /\ concurrent_requests \in 0..MaxLimit
  /\ max_tile_gropu \in (-1)..MaxGroup
  /\ server \in Servers
  /\ Size(server, max_tile_gropu, concurrent_requests) <= MaxSize
  /\ InitState

Next ==
  \/ \E t \in Tasks : Acquire(t)
  \/ \E t \in Tasks : Respond(t)
  \/ \E t \in Tasks : TransportFail(t)
  \/ \E t \in Tasks : WriteAndCount(t)
  \/ \E t \in Tasks : WriteFail(t)
  \/ \E t \in Tasks : BodyFail(t)
  \/ \E t \in Walkers : RecordWidth(t)
  \/ Join
  \/ Summary
  \/ CreateImage

Spec == Init /\ [][Next]_vars

\* the executor keeps running ready tasks and every request is answered
FairSpec == Spec /\ WF_vars(Next)

\* Scenario A of the specification: a 5 x 3 grid at zoom 3, tile (0,0) served
\* at zooms 0..3, every tile under TileGroup0, no failing send or write
ScenarioA == [zooms |-> 0..3, rowLen |-> [r \in 0..2 |-> 5], scheme |-> "zero"]

InitA ==
  /\ concurrent_requests \in 1..MaxLimit
  /\ max_tile_gropu \in 0..MaxGroup
  /\ server = ScenarioA
  /\ InitState

NextA ==
  \/ \E t \in Tasks : Acquire(t)
  \/ \E t \in Tasks : Respond(t)
  \/ \E t \in Tasks : WriteAndCount(t)
  \/ \E t \in Walkers : RecordWidth(t)
  \/ Join
  \/ Summary
  \/ CreateImage

SpecA == InitA /\ [][NextA]_vars

\* The same program with every lock().await, every guarded update and every
\* drop of a guard as a step of its own: the file write and the count update
\* of download_file, and the width update of download_row, are not atomic.
NextL ==
  \/ \E t \in Tasks : Acquire(t)
  \/ \E t \in Tasks : Respond(t)
  \/ \E t \in Tasks : TransportFail(t)
  \/ \E t \in Tasks : WriteFile(t)
  \/ \E t \in Tasks : LockCount(t)
  \/ \E t \in Tasks : CountUp(t)
  \/ \E t \in Tasks : WriteFail(t)
  \/ \E t \in Tasks : BodyFail(t)
  \/ \E t \in Walkers : LockWidth(t)
  \/ \E t \in Walkers : StoreWidth(t)
  \/ Join
  \/ Summary
  \/ CreateImage

SpecL == Init /\ [][NextL]_vars

\* the default of --max-tile-gropu
DefaultMaxTileGroup == 32

\* Scenario B of the specification: a 4 x 2 grid at zoom 2 on top of a 2 x 1
\* and a 1 x 1 level, the TileGroup going up by one every 4 tiles, the
\* grouping bound 32, no failing send or write
ScenarioB ==
  [zooms |-> 0..2, rowLen |-> [r \in 0..1 |-> 4], scheme |-> "raster",
   first |-> [z \in 0..2 |-> IF z = 0 THEN 0 ELSE IF z = 1 THEN 1 ELSE 3]]

InitB ==
  /\ concurrent_requests \in 1..MaxLimit
  /\ max_tile_gropu = DefaultMaxTileGroup
  /\ server = ScenarioB
  /\ InitState

SpecB == InitB /\ [][NextA]_vars

(* ------------------------------ claims --------------------------------- *)
\* requests sent and not yet answered, over the coordinator and all rows
Outstanding == Cardinality({t \in Tasks : pc[t] = "send"})

\* C1: in every reachable state the number of requests issued and not yet
\* answered is at most the configured concurrency limit.
C1_GateBound == Outstanding <= concurrent_requests

\* C1 witness: the gate is full, with two requests in flight and a third task
\* kept waiting at the gate.
C1_Witness ==
  /\ Outstanding = 2
  /\ permits = 0
  /\ \E t \in Tasks : pc[t] = "acquire"

\* the server answers call c's coordinate with a success status at group g
Succeeds(c, g) == StatusIsSuccess(c.x, c.y, c.zoom, g)

\* calls that ran to a result of the retry loop alone (no failed send or write)
Settled == {c \in calls : c.res \in {"ok", "exhausted"}}

\* the last grouping index a call starting at hint h may ask for
Top(h) == IF h > max_tile_gropu THEN h ELSE max_tile_gropu

StitchReached == pc[Prober] \in {"create_image", "end"}

\* the zoom level the probes settled on
maxZoom == zoom[Prober]

\* finished fetches at the top zoom level that wrote their tile
OkAt(cx, cy, cz) ==
  \E c \in calls : c.x = cx /\ c.y = cy /\ c.zoom = cz /\ c.res = "ok"

\* finished fetches that returned an error to their caller
FailedAt(cx, cy, cz) ==
  \E c \in calls :
    /\ c.x = cx /\ c.y = cy /\ c.zoom = cz
    /\ c.res \in {"exhausted", "ioerr", "bodyerr"}

\* columns fetched successfully in the discovered rows, at the top zoom
GoodColumns ==
  {c.x : c \in {d \in calls : d.res = "ok" /\ d.zoom = maxZoom /\ d.y < height}}

\* C3 (as claimed): at the Stitch Invoker the shared width is 1 + the largest
\* column fetched successfully in any discovered row (0 when there is none).
C3_Claim ==
  StitchReached =>
    /\ \A col \in GoodColumns : col + 1 <= width
    /\ width > 0 => (width - 1) \in GoodColumns
    /\ GoodColumns # {} => width > 0

\* C4: the height read by create_image is the smallest y >= 1 whose column-probe
\* fetch of (0, y, maxZoom) failed, and the column probe never asks for a row
\* beyond a failed one.
C4_Height ==
  /\ StitchReached =>
       /\ height >= 1
       /\ FailedAt(0, height, maxZoom)
       /\ \A row \in 1..(height - 1) :
            OkAt(0, row, maxZoom) /\ ~FailedAt(0, row, maxZoom)
       /\ pc[Prober] = "end" => montage[2] = height
  /\ \A r \in reqs :
       (r[1] = 0 /\ r[2] >= 1) =>
         \A row \in 1..(r[2] - 1) : OkAt(0, row, r[3]) /\ ~FailedAt(0, row, r[3])

\* C4 witness: the stitch is reached after two rows below row 0 were probed,
\* the first found and the second failing.
C4_Witness == StitchReached /\ height = 2 /\ OkAt(0, 1, maxZoom)

\* some grouping index the depth probe can use makes (0,0,z) succeed
ZoomFetchable(z) == \E g \in 0..Top(0) : StatusIsSuccess(0, 0, z, g)

\* C5 (as claimed): maxZoom is the largest z such that (0,0,z) succeeds and
\* (0,0,z+1) fails, for every server (runs with no failing send or write).
C5_Original ==
  (phase = "column" /\ faults = 0) =>
    /\ ZoomFetchable(maxZoom) /\ ~ZoomFetchable(maxZoom + 1)
    /\ \A z \in 0..(MaxZoom + 1) :
         (ZoomFetchable(z) /\ ~ZoomFetchable(z + 1)) => z <= maxZoom

\* C5 (amended): maxZoom is the smallest z >= -1 such that the depth probe's
\* fetch of (0,0,z+1) fails: every level 0..maxZoom was fetched, level
\* maxZoom+1 failed, nothing above it was asked for, and it is -1 when
\* (0,0,0) fails.
C5_FirstFailure ==
  phase = "column" =>
    /\ maxZoom >= -1
    /\ \A z \in 0..maxZoom : OkAt(0, 0, z)
    /\ FailedAt(0, 0, maxZoom + 1)
    /\ \A r \in reqs : (r[1] = 0 /\ r[2] = 0) => r[3] <= maxZoom + 1
    /\ faults = 0 =>
         /\ \A z \in 0..maxZoom : ZoomFetchable(z)
         /\ ~ZoomFetchable(maxZoom + 1)

\* C5 witness: the depth probe fetched levels 0 and 1 and failed at level 2.
C5_Witness == phase = "column" /\ maxZoom = 1 /\ OkAt(0, 0, 1)

\* C6 (as claimed): when the Stitch Invoker is invoked every tile file it is
\* handed, (maxZoom, x, y) for x < width and y < height, has been written.
C6_Claim ==
  /\ StitchReached => TileArgs(width, height, maxZoom) \subseteq files
  /\ pc[Prober] = "end" =>
       TileArgs(montage[1], montage[2], montage[3]) \subseteq files

\* C7: in Scenario A every interleaving ends with maxZoom = 3, width = 5,
\* height = 3 and downloaded-count = 15.
C7_ScenarioA ==
  /\ StitchReached => (maxZoom = 3 /\ width = 5 /\ height = 3 /\ count = 15)
  /\ pc[Prober] = "end" => montage = <<5, 3, 3>>

\* C7 witness: the run of Scenario A reached its end with all 15 tiles of the
\* top level on disk.
C7_Witness ==
  /\ pc[Prober] = "end"
  /\ server = ScenarioA
  /\ TileArgs(5, 3, 3) \subseteq files

\* a send() failed somewhere in the run
TransportFailed == \E c \in calls : c.res = "transport"

\* C8 (as claimed): for any concurrency limit and maximum, under fair
\* scheduling the run eventually reaches the Stitch Invoker (runs in which a
\* send or write fails set aside).
C8_Original == <>(StitchReached \/ faults > 0)

\* C8 (amended): for any concurrency limit of at least 1 and any maximum, under
\* fair scheduling the run eventually ends: every launched Row Walker has
\* finished and the Stitch Invoker has run, or a failed send has aborted it.
C8_Terminates ==
  concurrent_requests >= 1 =>
    <>(\/ /\ pc[Prober] = "end"
          /\ \A w \in Walkers : pc[w] \in {"done", "unspawned"}
          /\ \A w \in 0..(height - 1) : pc[w] = "done"
       \/ pc[Prober] = "panicked" /\ TransportFailed)

\* C8 witness: a run with a non-zero limit ended after joining two Row Walkers.
C8_Witness ==
  /\ concurrent_requests >= 1
  /\ pc[Prober] = "end"
  /\ height = 2
  /\ pc[0] = "done" /\ pc[1] = "done"

\* the calls that finished in the current step
Finishing == calls' \ calls

C10_Claim == (\E c \in calls : c.res = "ioerr") => ~StitchReached


\* C11: in Scenario B every fetch of a served coordinate succeeds at the
\* TileGroup the server wants, reached from its threaded hint in at most one
\* step and well below the bound of 32; no fetch of a served coordinate is
\* ever past that TileGroup; and the run reaches the stitch with the true
\* extents, maxZoom = 2, width = 4, height = 2, all 8 tiles written.
C11_ScenarioB ==
  /\ \A c \in calls :
       Served(c.x, c.y, c.zoom) =>
         /\ c.res = "ok"
         /\ c.g = RasterGroup(c.x, c.y, c.zoom)
         /\ c.hint <= c.g /\ c.g - c.hint <= 1
         /\ c.g < max_tile_gropu
  /\ \A t \in Tasks :
       (pc[t] \in {"acquire", "send", "write"} /\ Served(x[t], y[t], zoom[t])) =>
         /\ tile_group[t] <= tg[t]
         /\ tg[t] <= RasterGroup(x[t], y[t], zoom[t])
  /\ StitchReached =>
       /\ maxZoom = 2 /\ width = 4 /\ height = 2
       /\ TileArgs(4, 2, 2) \subseteq files
  /\ pc[Prober] = "end" => montage = <<4, 2, 2>>

\* C11 witness: the run of Scenario B ended, and on its way a Row Walker had to
\* advance its hint from TileGroup1 to TileGroup2.
C11_Witness ==
  /\ pc[Prober] = "end"
  /\ server = ScenarioB
  /\ \E c \in calls : c.task \in Walkers /\ c.res = "ok" /\ c.hint = 1 /\ c.g = 2

\* the columns at which the launched Row Walkers stopped (each one's x when it
\* takes the width lock)
FailureColumns == {x[w] : w \in 0..(height - 1)}

\* C12 (as claimed): whatever the rows' failure columns and the order in which
\* the Row Walkers finish, the final shared width is the maximum of the
\* recorded failure columns.
C12_Claim ==
  StitchReached =>
    /\ width \in FailureColumns
    /\ \A col \in FailureColumns : col <= width

\* the grouping indexes requested so far for one coordinate
RequestedFor(cx, cy, cz) ==
  {r[4] : r \in {q \in reqs : q[1] = cx /\ q[2] = cy /\ q[3] = cz}}

\* a task inside a download_file call
InCall(t) == pc[t] \in {"acquire", "send", "write"}

\* within one coordinate's retry sequence the requests go up from the hint one
\* index at a time: the indexes requested are exactly hint..current
RetryAscends ==
  /\ \A c \in calls : RequestedFor(c.x, c.y, c.zoom) = c.hint..c.g
  /\ \A t \in Tasks :
       InCall(t) =>
         RequestedFor(x[t], y[t], zoom[t]) =
           tile_group[t]..(IF pc[t] = "acquire" THEN tg[t] - 1 ELSE tg[t])

Fetches == calls \cup {Call(t, "running") : t \in {u \in Tasks : InCall(u)}}

\* the coordinate fetched just before f on f's probing path: the level below
\* on the depth probe, the row above on the column probe ((0,0) for row 1),
\* the column to the left in a row (the column probe's tile for column 1)
Pred(f) ==
  IF f.task = Prober
    THEN IF f.y = 0 THEN <<0, 0, f.zoom - 1>>
         ELSE IF f.y = 1 THEN <<0, 0, f.zoom>>
         ELSE <<0, f.y - 1, f.zoom>>
    ELSE IF f.x = 1 THEN <<0, f.y, f.zoom>>
         ELSE <<f.x - 1, f.y, f.zoom>>

\* f starts with the index returned by the successful fetch before it on its
\* path, or with 0 when no fetch on the path has succeeded yet
Threaded(f) ==
  IF Pred(f)[3] >= 0
    THEN \E p \in calls :
           /\ <<p.x, p.y, p.zoom>> = Pred(f)
           /\ p.res = "ok"
           /\ f.hint = p.g
    ELSE f.hint = 0

\* C14: every fetch starts with the grouping index returned by the most recent
\* successful fetch on its own probing path (0 when there is none); a failed
\* fetch leaves its caller's hint unchanged; and a Row Walker visits the
\* columns 1, 2, ... in order and asks for nothing past its first failure.
C14_HintThreaded ==
  /\ \A f \in Fetches : Threaded(f)
  /\ \A c \in calls :
       (c.res \in {"exhausted", "ioerr", "bodyerr"} /\ (c.task \in Walkers \/ c.y >= 1))
         => tile_group[c.task] = c.hint
  /\ \A f \in Fetches :
       f.task \in Walkers =>
         /\ f.x >= 1 /\ f.y = f.task
         /\ \A k \in 1..(f.x - 1) :
              OkAt(k, f.y, f.zoom) /\ ~FailedAt(k, f.y, f.zoom)

\* C14 witness: the Row Walker of row 1 made its first fetch with the hint 1
\* the column probe had found, and a later fetch of that row failed.
C14_Witness ==
  /\ \E c \in calls :
       c.task = 1 /\ c.x = 1 /\ c.hint = 1 /\ c.g = 1 /\ c.res = "ok"
  /\ \E c \in calls : c.task = 1 /\ c.x = 2 /\ c.res = "exhausted"

\* the Row Walkers launched so far
Launched == {w \in Walkers : pc[w] # "unspawned"}

\* C15: from the moment the Stitch Invoker is invoked, every launched Row
\* Walker (row 0 and one per row the column probe found) has terminated with
\* its width update recorded and the height has been written; so no Row Walker
\* is inside a fetch or before its width update once the stitch has started,
\* and the width the stitch reads is final.
C15_StitchAfterJoin ==
  /\ StitchReached =>
       /\ height = y[Prober] /\ height >= 1
       /\ Launched = 0..(height - 1)
       /\ \A w \in Launched : pc[w] = "done"
       /\ \A w \in Walkers : ~InCall(w) /\ pc[w] # "width"
       /\ \A w \in Launched : WidthUpdate(width, x[w]) = width
  /\ pc[Prober] = "end" => (montage[1] = width /\ montage[2] = height)

\* C15 witness: create_image is about to run with two Row Walkers joined, the
\* longer row's end column recorded as the width.
C15_Witness ==
  /\ pc[Prober] = "create_image"
  /\ Launched = {0, 1}
  /\ width = 2

\* the distinct tiles of the top zoom level fetched and written so far
TopTiles == {f \in files : f[1] = maxZoom}

\* C16 (as claimed): the count is reset to 1 after the depth probe, before any
\* Row Walker is launched, so that at the Stitch Invoker it equals the number
\* of distinct tiles of zoom maxZoom fetched and written, for every server,
\* also one on which the depth probe downloads nothing.
C16_Claim ==
  /\ (phase = "depth" => Launched = {})
  /\ StitchReached => count = Cardinality(TopTiles)

\* C17: the permits out of the semaphore are exactly the requests sent and not
\* yet answered: a task holds one permit while its request is in flight and
\* none while it waits at the gate between retries, reads the body, writes the
\* file, updates the count or the width, or has ended (also by a panic); so
\* every permit taken is back once its request has been answered.
C17_PermitPerRequest ==
  /\ permits >= 0
  /\ concurrent_requests - permits = Outstanding
  /\ (\A t \in Tasks : pc[t] # "send") => permits = concurrent_requests

\* C17 witness: with a single permit, one task got the permit and sent its
\* request while another was still writing the body of its own response.
C17_Witness ==
  /\ concurrent_requests = 1
  /\ \E a, b \in Tasks : pc[a] = "write" /\ pc[b] = "send"
  /\ permits = 0

\* positions at which a task waits: for a permit, a response, a mutex, a join
Waiting(t) == pc[t] \in {"acquire", "send", "lock_count", "width", "join"}

\* C18: the guards of width, height and count are never held jointly: a task
\* holds at most one of them, two tasks never hold the same one, and a task
\* holding one is never waiting for a permit, a response or another mutex but
\* is at the update it took the guard for; so a task waiting for a mutex always
\* finds it free or held by a task that can go on, and the run cannot deadlock
\* on the shared aggregates.
C18_LockDiscipline ==
  /\ \A t \in Tasks : Cardinality(held[t]) <= 1
  /\ \A a, b \in Tasks : a # b => held[a] \cap held[b] = {}
  /\ \A t \in Tasks : held[t] # {} => ~Waiting(t)
  /\ \A t \in Tasks :
       /\ "count" \in held[t] <=> pc[t] = "counting"
       /\ "width" \in held[t] <=> pc[t] = "width_locked"
       /\ "height" \notin held[t]
  /\ \A t \in Tasks :
       /\ pc[t] = "lock_count" =>
            (MutexFree("count") \/ \E u \in Tasks : ENABLED CountUp(u))
       /\ pc[t] = "width" =>
            (MutexFree("width") \/ \E u \in Walkers : ENABLED StoreWidth(u))

\* C18 witness: one task holds the count guard while another task, its file
\* written, waits for that guard.
C18_Witness ==
  \E a, b \in Tasks :
    /\ a # b
    /\ held[a] = {"count"}
    /\ pc[b] = "lock_count"

\* the connection failed during a fetch: while the request was sent or while
\* the response body was read
ConnectionFailed == \E c \in calls : c.res \in {"transport", "bodyerr"}

\* C19 (as claimed): once a transport failure has occurred in any fetch, of the
\* prober or of a Row Walker, the run is terminated and the Stitch Invoker is
\* never invoked.
C19_Claim == ConnectionFailed => ~StitchReached

\* the coordinates of the download_file calls that have finished after this step
DoneCoords == {<<c.x, c.y, c.zoom>> : c \in calls}

\* task t begins a download_file call in the current step: it was just
\* spawned, or its previous call returned and its loop calls again
StartsCall(t) ==
  /\ pc'[t] = "acquire"
  /\ pc[t] = "unspawned" \/ \E c \in Finishing : c.task = t

\* the rows for which the coordinator spawns a Row Walker in the current step:
\* row 0 when the depth probe's loop ends, row y when the column probe
\* fetched (0, y)
SpawnedNow ==
  {c.y : c \in {d \in Finishing :
                  /\ d.task = Prober
                  /\ \/ phase = "depth" /\ d.res \in {"exhausted", "ioerr", "bodyerr"}
                     \/ phase = "column" /\ d.res = "ok"}}

\* who fetches what: the coordinator column 0, the Row Walker of row r the
\* columns from 1 on of row r
Owned == \A f \in Fetches :
           IF f.task = Prober THEN f.x = 0 ELSE (f.x >= 1 /\ f.y = f.task)

\* C20: a call of download_file never starts for a coordinate that another
\* call, finished or running, has already been made for, so no two calls ever
\* write the same tile file; the coordinator fetches only column 0, the Row
\* Walker of row y only columns >= 1 of row y; a Row Walker is spawned only
\* for a row that has none yet, and at the stitch the rows with a Row Walker
\* are exactly 0..height-1.
C20_OneFetchPerTile ==
  [][/\ \A t \in Tasks :
          StartsCall(t) =>
            /\ <<x'[t], y'[t], zoom'[t]>> \notin DoneCoords'
            /\ \A u \in Tasks \ {t} :
                 InCall(u)' =>
                   <<x'[u], y'[u], zoom'[u]>> # <<x'[t], y'[t], zoom'[t]>>
     /\ Owned'
     /\ \A r \in SpawnedNow : pc[r] = "unspawned" /\ pc'[r] = "acquire"
     /\ \A w \in Walkers : pc[w] # "unspawned" => pc'[w] # "unspawned"
     /\ StitchReached' => Launched' = 0..(height' - 1)]_vars

\* C20 witness: a run ended in which the coordinator and two Row Walkers each
\* fetched tiles of the top level, every finished call for a coordinate of
\* its own.
C20_Witness ==
  /\ pc[Prober] = "end"
  /\ maxZoom >= 0
  /\ \A w \in {0, 1} : \E c \in calls : c.task = w /\ c.res = "ok"
  /\ Cardinality(DoneCoords) = Cardinality(calls)

====
